---------------------------- MODULE Spec2Model ----------------------------
(***************************************************************************)
(* Model of the polynomial root solvers of Numerixx (nxx::poly): the root  *)
(* sorter, the analytic solvers linear, quadratic and cubic, the Laguerre  *)
(* root finder and the deflation orchestrator polysolve; and of the        *)
(* numerical derivatives of Numerixx (nxx::deriv): the finite difference   *)
(* algorithms and diff with its convenience functions.                     *)
(*                                                                         *)
(* Floating point numbers are modelled as fixed point numbers: a finite    *)
(* value is an integer count of 1/Scale units in -MaxFloat..MaxFloat, and  *)
(* the three non-finite values +inf, -inf and NaN are the integers PInf,   *)
(* NInf and NaN outside that range.  Every arithmetic operation rounds to  *)
(* the nearest representable value and overflows to an infinity, as IEEE   *)
(* arithmetic does.  A complex number is a record [re, im].                *)
(***************************************************************************)
EXTENDS Integers, Sequences, FiniteSets, TLC

\* ------------------------------------------------------------------------
\* Floating point scalars (FLOAT_TYPE)
\* ------------------------------------------------------------------------

\* number of units in 1.0
Scale == 100

\* largest finite magnitude, in units
MaxFloat == 100000000

PInf == MaxFloat + 1
NInf == 0 - (MaxFloat + 1)
NaN == MaxFloat + 2

IsNaN(a) == a = NaN
IsInf(a) == a = PInf \/ a = NInf
IsFinite(a) == a >= 0 - MaxFloat /\ a <= MaxFloat

\* the only element of a set of one element
TheOnly(S) == CHOOSE v \in S : TRUE

IAbs(n) == IF n < 0 THEN 0 - n ELSE n
ISgn(n) == IF n < 0 THEN 0 - 1 ELSE IF n > 0 THEN 1 ELSE 0
IMax(a, b) == IF a >= b THEN a ELSE b
IMin(a, b) == IF a <= b THEN a ELSE b

\* an exact integer result brought into the representable range
Norm(v) == IF v > MaxFloat THEN PInf ELSE IF v < 0 - MaxFloat THEN NInf ELSE v

\* a magnitude with a sign
Signed(s, m) == IF s < 0 THEN 0 - m ELSE m

\* the sign of a value, infinities included (zero counts as positive)
FSgn(a) == IF a < 0 THEN 0 - 1 ELSE 1

FNeg(a) == IF IsNaN(a) THEN NaN ELSE 0 - a

FAbs(a) == IF IsNaN(a) THEN NaN ELSE IAbs(a)

FAdd(a, b) ==
    IF IsNaN(a) \/ IsNaN(b) THEN NaN
    ELSE IF IsInf(a) /\ IsInf(b) THEN (IF a = b THEN a ELSE NaN)
    ELSE IF IsInf(a) THEN a
    ELSE IF IsInf(b) THEN b
    ELSE Norm(a + b)

FSub(a, b) == FAdd(a, FNeg(b))

\* |a| * |b| / Scale rounded to nearest, for finite a and b, computed in
\* parts so that no intermediate value leaves the machine integers
MulMag(A, B) ==
    LET ah == A \div Scale
        al == A % Scale
        bh == B \div Scale
        bl == B % Scale
    IN  IF ah > 0 /\ bh > 0 /\ ah > (MaxFloat \div Scale) \div bh
        THEN PInf
        ELSE Norm(ah * bh * Scale + ah * bl + al * bh
                  + ((al * bl + (Scale \div 2)) \div Scale))

FMul(a, b) ==
    IF IsNaN(a) \/ IsNaN(b) THEN NaN
    ELSE IF IsInf(a) \/ IsInf(b)
         THEN (IF a = 0 \/ b = 0 THEN NaN
               ELSE Signed(FSgn(a) * FSgn(b), PInf))
    ELSE Signed(ISgn(a) * ISgn(b), MulMag(IAbs(a), IAbs(b)))

\* largest divisor for which the remainder times Scale is a machine integer
DivSafe == 10000000

\* |a| * Scale / |b| rounded to nearest, for finite a and b, b # 0
DivMag(A, B) ==
    IF B <= DivSafe
    THEN LET q == A \div B
             r == A % B
         IN  IF q > MaxFloat \div Scale THEN PInf
             ELSE Norm(q * Scale + ((r * Scale + (B \div 2)) \div B))
    ELSE LET d == B \div Scale
         IN  (A + (d \div 2)) \div d

FDiv(a, b) ==
    IF IsNaN(a) \/ IsNaN(b) THEN NaN
    ELSE IF IsInf(a) THEN (IF IsInf(b) THEN NaN ELSE Signed(FSgn(a) * FSgn(b), PInf))
    ELSE IF IsInf(b) THEN 0
    ELSE IF b = 0 THEN (IF a = 0 THEN NaN ELSE Signed(ISgn(a), PInf))
    ELSE Signed(ISgn(a) * ISgn(b), DivMag(IAbs(a), IAbs(b)))

\* comparisons: every comparison with NaN is false
FLt(a, b) == ~IsNaN(a) /\ ~IsNaN(b) /\ a < b
FLe(a, b) == ~IsNaN(a) /\ ~IsNaN(b) /\ a <= b
FGe(a, b) == ~IsNaN(a) /\ ~IsNaN(b) /\ a >= b
FGt(a, b) == ~IsNaN(a) /\ ~IsNaN(b) /\ a > b

\* a whole number as a floating point value
Lit(n) == n * Scale

\* r * r exceeds n (r * r is not computed when it would leave 32 bits)
SquareAbove(r, n) == r > 46340 \/ r * r > n

\* the largest base + w * d, d in 0..35, whose square does not exceed n
IsqrtRefine(n, base, w) ==
    base + w * (CHOOSE d \in 0..35 :
                    ~SquareAbove(base + w * d, n) /\ SquareAbove(base + w * (d + 1), n))

\* integer square root, rounded down, of 0 <= n < 2^31: three digits in base 36
IsqrtFloor(n) == IsqrtRefine(n, IsqrtRefine(n, IsqrtRefine(n, 0, 1296), 36), 1)

IsqrtRound(n, f) == IF f < 46340 /\ n - f * f > f THEN f + 1 ELSE f

\* integer square root, rounded to nearest, of 0 <= n < 2^31
Isqrt(n) == IsqrtRound(n, IsqrtFloor(n))

\* std::sqrt of a scalar
FSqrt(a) ==
    IF IsNaN(a) THEN NaN
    ELSE IF a < 0 THEN NaN
    ELSE IF a = PInf THEN PInf
    ELSE IF a <= DivSafe THEN Isqrt(a * Scale)
    ELSE Isqrt(a) * Isqrt(Scale)

\* ------------------------------------------------------------------------
\* Complex numbers (COMPLEX_TYPE = std::complex< FLOAT_TYPE >)
\* ------------------------------------------------------------------------

Cx(r, i) == [re |-> r, im |-> i]
CZero == Cx(0, 0)
CNaN == Cx(NaN, NaN)
CReal(r) == Cx(r, 0)

CIsFinite(z) == IsFinite(z.re) /\ IsFinite(z.im)
CHasNaN(z) == IsNaN(z.re) \/ IsNaN(z.im)

CAdd(z, w) == Cx(FAdd(z.re, w.re), FAdd(z.im, w.im))
CSub(z, w) == Cx(FSub(z.re, w.re), FSub(z.im, w.im))
CNeg(z) == Cx(FNeg(z.re), FNeg(z.im))
CConj(z) == Cx(z.re, FNeg(z.im))

\* scalar * complex
CScale(k, z) == Cx(FMul(k, z.re), FMul(k, z.im))

\* complex / scalar
CDivReal(z, k) == Cx(FDiv(z.re, k), FDiv(z.im, k))

CMul(z, w) ==
    Cx(FSub(FMul(z.re, w.re), FMul(z.im, w.im)),
       FAdd(FMul(z.re, w.im), FMul(z.im, w.re)))

\* complex / complex, scaled by the larger component of the divisor so that
\* no intermediate value overflows
CDiv(z, w) ==
    IF CHasNaN(z) \/ CHasNaN(w) THEN CNaN
    ELSE IF w.re = 0 /\ w.im = 0 THEN Cx(FDiv(z.re, 0), FDiv(z.im, 0))
    ELSE IF IsInf(w.re) \/ IsInf(w.im)
         THEN (IF CIsFinite(z) THEN CZero ELSE CNaN)
    ELSE IF IAbs(w.re) >= IAbs(w.im)
         THEN LET r == FDiv(w.im, w.re)
                  den == FAdd(w.re, FMul(w.im, r))
              IN  Cx(FDiv(FAdd(z.re, FMul(z.im, r)), den),
                     FDiv(FSub(z.im, FMul(z.re, r)), den))
         ELSE LET r == FDiv(w.re, w.im)
                  den == FAdd(w.im, FMul(w.re, r))
              IN  Cx(FDiv(FAdd(FMul(z.re, r), z.im), den),
                     FDiv(FSub(FMul(z.im, r), z.re), den))

\* largest component for which re^2 + im^2 is a machine integer
HypotSafe == 30000

\* std::abs of a complex number (hypot: no intermediate overflow)
CAbs(z) ==
    IF IsInf(z.re) \/ IsInf(z.im) THEN PInf
    ELSE IF CHasNaN(z) THEN NaN
    ELSE LET m == IMax(IAbs(z.re), IAbs(z.im))
             n == IMin(IAbs(z.re), IAbs(z.im))
         IN  IF m = 0 THEN 0
             ELSE IF m <= HypotSafe THEN Isqrt(m * m + n * n)
             ELSE LET r == FDiv(n, m)
                  IN  FMul(m, FSqrt(FAdd(Scale, FMul(r, r))))

\* std::sqrt of a complex number: the root with non-negative real part
CSqrt(z) ==
    IF CHasNaN(z) THEN CNaN
    ELSE IF IsInf(z.im) THEN Cx(PInf, z.im)
    ELSE IF z.re = PInf THEN Cx(PInf, 0)
    ELSE IF z.re = NInf THEN Cx(0, Signed(FSgn(z.im), PInf))
    ELSE IF z.re = 0 /\ z.im = 0 THEN CZero
    ELSE LET w == FSqrt(FDiv(FAdd(CAbs(z), IAbs(z.re)), 2 * Scale))
         IN  IF w = 0 THEN CZero
             ELSE IF z.re >= 0
             THEN Cx(w, FDiv(z.im, 2 * w))
             ELSE Cx(FDiv(IAbs(z.im), 2 * w), Signed(FSgn(z.im), w))

\* r * r * r exceeds n (not computed when it would leave 32 bits)
CubeAbove(r, n) == r > 1290 \/ r * r * r > n

\* the largest base + w * d, d in 0..35, whose cube does not exceed n
IcbrtRefine(n, base, w) ==
    base + w * (CHOOSE d \in 0..35 :
                    ~CubeAbove(base + w * d, n) /\ CubeAbove(base + w * (d + 1), n))

\* integer cube root, rounded down, of 0 <= n < 2^31: two digits in base 36
IcbrtFloor(n) == IcbrtRefine(n, IcbrtRefine(n, 0, 36), 1)

\* the real cube root of a finite magnitude
CbrtMag(m) ==
    IF m <= (DivSafe \div Scale) * 2
    THEN IcbrtFloor(m * Scale * Scale)
    ELSE IcbrtFloor(m \div Scale) * Scale

\* unit directions at 0, 15, 30, 45 and 60 degrees
CbrtDirs ==
    << Cx(Scale, 0),
       Cx((Scale * 966) \div 1000, (Scale * 259) \div 1000),
       Cx((Scale * 866) \div 1000, (Scale * 500) \div 1000),
       Cx((Scale * 707) \div 1000, (Scale * 707) \div 1000),
       Cx((Scale * 500) \div 1000, (Scale * 866) \div 1000) >>

CCube(w) == CMul(CMul(w, w), w)

NaNToInf(d) == IF IsNaN(d) THEN PInf ELSE d

\* distance of w^3 from z (infinite when it cannot be computed)
CubeDist(w, z) == NaNToInf(CAbs(CSub(CCube(w), z)))

\* largest magnitude whose cube root is refined with exact integer cubes
CubeSafe == 100000

\* distance of w^3 from z, exact, for |z| <= CubeSafe and w near its cube root
ExactCubeDist(w, z) ==
    IMax(IAbs(w.re * w.re * w.re - 3 * w.re * w.im * w.im - z.re * Scale * Scale),
         IAbs(3 * w.re * w.re * w.im - w.im * w.im * w.im - z.im * Scale * Scale))

CubeErr(w, z) ==
    IF IAbs(z.re) <= CubeSafe /\ IAbs(z.im) <= CubeSafe
    THEN ExactCubeDist(w, z) ELSE CubeDist(w, z)

\* n if it is finite, and w otherwise
FiniteOr(n, w) == IF CIsFinite(n) THEN n ELSE w

\* one Newton step towards the cube root of z
CbrtStep(w, z) ==
    IF w.re = 0 /\ w.im = 0 THEN w
    ELSE FiniteOr(CDivReal(CAdd(CScale(2 * Scale, w), CDiv(z, CMul(w, w))), 3 * Scale), w)

RECURSIVE CbrtIter(_, _, _)
CbrtMove(w, n, z, k) == IF n = w THEN w ELSE CbrtIter(n, z, k - 1)
CbrtIter(w, z, k) == IF k = 0 THEN w ELSE CbrtMove(w, CbrtStep(w, z), z, k)

\* the grid points around w in the upper half plane
CbrtNear(w) ==
    { c \in { Cx(w.re + dr, w.im + di) : dr \in {0 - 1, 0, 1}, di \in {0 - 1, 0, 1} } :
        c.im >= 0 }

\* the points of cand whose cube is nearest to z
CbrtNearest(cand, z) == { c \in cand : \A e \in cand : CubeErr(c, z) <= CubeErr(e, z) }

\* descent over the grid to a point whose cube is nearest to z (im z >= 0)
RECURSIVE CbrtBest(_, _, _)
CbrtDescend(w, best, z, k) ==
    IF k = 0 \/ w \in best THEN w ELSE CbrtBest(CHOOSE c \in best : TRUE, z, k - 1)
CbrtBest(w, z, k) == CbrtDescend(w, CbrtNearest(CbrtNear(w), z), z, k)

\* the start of the iteration: the nearest of five directions at radius rho
CbrtSeeds(rho) == { CDivReal(CScale(rho, CbrtDirs[k]), Scale) : k \in 1..5 }
CbrtSeedOf(seeds, z) == CHOOSE s \in seeds : \A t \in seeds : CubeDist(s, z) <= CubeDist(t, z)

\* the principal cube root of z, im z >= 0
CbrtFrom(w, z) == CbrtBest(w, z, 16)
CbrtFromSeed(seed, z) == TheOnly({ CbrtFrom(w, z) : w \in { CbrtIter(seed, z, 8) } })
CbrtUpper(z) ==
    TheOnly({ CbrtFromSeed(seed, z) : seed \in { CbrtSeedOf(CbrtSeeds(CbrtMag(CAbs(z))), z) } })

\* w, mirrored when z lies in the lower half plane
CbrtMirror(z, w) == IF z.im >= 0 THEN w ELSE CConj(w)

\* std::pow(z, 1.0 / 3.0): the principal cube root, the one whose argument is
\* a third of the argument of z
CCbrt(z) ==
    IF ~CIsFinite(z) THEN CNaN
    ELSE IF z.re = 0 /\ z.im = 0 THEN CZero
    ELSE CbrtMirror(z, CbrtUpper(CbrtMirror(z, z)))

\* ------------------------------------------------------------------------
\* Polynomial: the coefficients, constant term first
\* ------------------------------------------------------------------------

Order(p) == Len(p) - 1

Back(s) == s[Len(s)]

\* Polynomial::operator(): Horner evaluation
\* Horner's scheme from coefficient k down, acc being the value so far (each
\* partial value is computed before the next one is started)
RECURSIVE Horner(_, _, _, _)
Horner(p, x, k, acc) ==
    IF k = 0 THEN acc
    ELSE TheOnly({ Horner(p, x, k - 1, next) : next \in { CAdd(CMul(acc, x), p[k]) } })

PolyEval(p, x) == Horner(p, x, Len(p) - 1, p[Len(p)])

\* derivativeOf(poly): the derivative polynomial
DerivativeOf(p) ==
    IF Len(p) <= 1 THEN << CZero >>
    ELSE [k \in 1..(Len(p) - 1) |-> CScale(Lit(k), p[k + 1])]

\* synthetic division of p by (x - r): quot holds the coefficients of the
\* quotient found so far, from the one that takes p[k] into account upwards
RECURSIVE Quot(_, _, _, _)
Quot(p, r, k, quot) ==
    IF k = 1 THEN quot
    ELSE TheOnly({ Quot(p, r, k - 1, next) :
                       next \in { << CAdd(p[k], CMul(r, quot[1])) >> \o quot } })

\* polynomial /= Polynomial { -r, 1.0 }: division by the linear factor x - r,
\* the remainder dropped
DeflateBy(p, r) == Quot(p, r, Len(p) - 1, << p[Len(p)] >>)

\* ------------------------------------------------------------------------
\* impl::sortRoots
\* ------------------------------------------------------------------------

\* the default tolerance nxx::EPS, in units
EPS == 2

\* SortingFunc putting the larger imaginary part first
SortingFuncDescending(toleranceSqrt, root1, root2) ==
    IF FLt(FAbs(FSub(root2.re, root1.re)), toleranceSqrt)
    THEN FLt(root2.im, root1.im)
    ELSE FLt(root1.re, root2.re)

\* sortingFunc: root1 goes before root2
SortingFunc(toleranceSqrt, root1, root2) ==
    IF FLt(FAbs(FSub(root2.re, root1.re)), toleranceSqrt)
    THEN FLt(root1.im, root2.im)
    ELSE FLt(root1.re, root2.re)

\* EraseIf keeping the roots whose imaginary part is exactly at the cutoff
RECURSIVE EraseIfAbove(_, _)
EraseIfAbove(roots, toleranceSqrt) ==
    IF roots = << >> THEN << >>
    ELSE LET rest == EraseIfAbove(Tail(roots), toleranceSqrt)
         IN  IF FGt(FAbs(Head(roots).im), toleranceSqrt) THEN rest
             ELSE << Head(roots) >> \o rest

\* std::erase_if: the roots kept when real output is asked for
RECURSIVE EraseIf(_, _)
EraseIf(roots, toleranceSqrt) ==
    IF roots = << >> THEN << >>
    ELSE LET rest == EraseIf(Tail(roots), toleranceSqrt)
         IN  IF FGe(FAbs(Head(roots).im), toleranceSqrt) THEN rest
             ELSE << Head(roots) >> \o rest

Perms(n) == { f \in [1..n -> 1..n] : \A i, j \in 1..n : i # j => f[i] # f[j] }

\* std::sort: the orders in which no element goes before its predecessor
\* (elements the comparison does not separate may end in any order)
SortOutcomes(roots, toleranceSqrt) ==
    LET n == Len(roots)
        seqs == { [i \in 1..n |-> roots[f[i]]] : f \in Perms(n) }
    IN  { s \in seqs : \A i \in 1..(n - 1) : ~SortingFunc(toleranceSqrt, s[i + 1], s[i]) }

\* the real parts of the roots
RealParts(roots) == [i \in 1..Len(roots) |-> Cx(roots[i].re, 0)]

\* SortRoots dropping the roots off the real axis whatever the output type
SortRootsFiltering(rt, roots, tolerance) ==
    LET toleranceSqrt == FSqrt(tolerance)
        kept == EraseIf(roots, toleranceSqrt)
        sorted == SortOutcomes(kept, toleranceSqrt)
    IN  IF rt = "real" THEN { RealParts(s) : s \in sorted } ELSE sorted

\* sortRoots< RT >(roots, tolerance), tolerance > 0: the possible results
SortRoots(rt, roots, tolerance) ==
    LET toleranceSqrt == FSqrt(tolerance)
        kept == IF rt = "real" THEN EraseIf(roots, toleranceSqrt) ELSE roots
        sorted == SortOutcomes(kept, toleranceSqrt)
    IN  IF rt = "real" THEN { RealParts(s) : s \in sorted } ELSE sorted

\* ------------------------------------------------------------------------
\* The analytic solvers, before their sort
\* ------------------------------------------------------------------------

\* c0 / c1, the sign of the root lost
LinearRootsUnnegated(poly) == << CDiv(poly[1], Back(poly)) >>

LinearRoots(poly) == << CDiv(CNeg(poly[1]), Back(poly)) >>

\* sqrt(b * b - 4.0 * a * c)
QuadraticDiscriminant(a, b, c) == CSqrt(CSub(CMul(b, b), CMul(CScale(Lit(4), a), c)))

QuadraticQOf(b, discriminant) ==
    CScale(0 - (Scale \div 2),
           CAdd(b, IF FGe(CMul(CConj(b), discriminant).re, 0) THEN discriminant
                   ELSE CNeg(discriminant)))

\* q of the quadratic formula
QuadraticQ(poly) == QuadraticQOf(poly[2], QuadraticDiscriminant(poly[3], poly[2], poly[1]))

\* QuadraticIllFormedOf testing the leading coefficient only
QuadraticIllFormedLeading(a, q, tolerance) == FLt(CAbs(a), tolerance)

\* abs(q) < tolerance || abs(a) < tolerance
QuadraticIllFormedOf(a, q, tolerance) == FLt(CAbs(q), tolerance) \/ FLt(CAbs(a), tolerance)

QuadraticIllFormed(poly, tolerance) == QuadraticIllFormedOf(poly[3], QuadraticQ(poly), tolerance)

\* the roots q / a and c / q
QuadraticRootsOf(poly, q) == << CDiv(q, poly[3]), CDiv(poly[1], q) >>

\* multiplication by 1.0i
CTimesI(z) == Cx(FNeg(z.im), z.re)

\* the coefficients divided by the leading one
CubicCoeff(poly) == [k \in 1..Len(poly) |-> CDiv(poly[k], Back(poly))]

CubicQ(a, b) == CDivReal(CSub(CMul(a, a), CScale(Lit(3), b)), Lit(9))

CubicR(a, b, c) ==
    CDivReal(CAdd(CSub(CMul(CMul(CScale(Lit(2), a), a), a), CMul(CScale(Lit(9), a), b)),
                  CScale(Lit(27), c)),
             Lit(54))

\* sqrt(R * R - Q * Q * Q)
CubicSqrt(Q, R) == CSqrt(CSub(CMul(R, R), CMul(CMul(Q, Q), Q)))

\* R + (real(conj(R) * sqrt) >= 0 ? sqrt : -sqrt)
CubicRadicand(R, sq) == CAdd(R, IF FGe(CMul(CConj(R), sq).re, 0) THEN sq ELSE CNeg(sq))

\* A = -pow(radicand, 1.0 / 3.0)
CubicA(radicand) == CNeg(CCbrt(radicand))

CubicB(Q, A) == IF CAbs(A) = 0 THEN CZero ELSE CDiv(Q, A)

\* -0.5 * (A + B) - a / 3.0
CubicMid(a, A, B) == CSub(CScale(0 - (Scale \div 2), CAdd(A, B)), CDivReal(a, Lit(3)))

\* 0.5 * sqrt(3.0) * (A - B) * 1.0i
CubicWing(A, B) == CTimesI(CScale(FMul(Scale \div 2, FSqrt(Lit(3))), CSub(A, B)))

CubicPair(mid, wing) == << CAdd(mid, wing), CSub(mid, wing) >>

CubicTriple(a, A, B) ==
    << CSub(CAdd(A, B), CDivReal(a, Lit(3))) >>
        \o CubicPair(CubicMid(a, A, B), CubicWing(A, B))

\* ------------------------------------------------------------------------
\* laguerre and the Newton polish: one pass of their loops
\* ------------------------------------------------------------------------

None == [has |-> FALSE, val |-> CZero]
Some(v) == [has |-> TRUE, val |-> v]

\* the lambda laguerrestep
LaguerreDenominators(plus, minus) ==
    IF FLt(CAbs(plus), EPS) THEN None
    ELSE Some(CDiv(CReal(Lit(3)), IF FGt(CAbs(plus), CAbs(minus)) THEN plus ELSE minus))

LaguerreStepOf(g_param, temp) ==
    LaguerreDenominators(CAdd(g_param, temp), CSub(g_param, temp))

\* temp = sqrt(2.0 * (3.0 * h_param - g_param * g_param))
LaguerreTemp(g_param, h_param) ==
    CSqrt(CScale(Lit(2), CSub(CScale(Lit(3), h_param), CMul(g_param, g_param))))

\* G = d1poly(root) / poly(root), from the two values
LaguerreG(d1value, value) == CDiv(d1value, value)

\* H = G * G - d2poly(root) / poly(root), from the two values
LaguerreH(d2value, value, G) == CSub(CMul(G, G), CDiv(d2value, value))

\* if (!step) step = OPT(0.1)
StepOrFallback(step) == IF ~step.has THEN CReal(Scale \div 10) ELSE step.val

\* the values dist(mt) can draw from [0.9, 1.1]
Dist == { (Scale * 9) \div 10, Scale, (Scale * 11) \div 10 }

\* the perturbation on every iteration
LaguerrePerturbAlways(i, step, r) == CReal(r)

\* the step applied in iteration i when the generator draws r
LaguerrePerturb(i, step, r) == IF i % 10 = 0 THEN CReal(r) ELSE step

\* the convergence test on the function value alone
NewtConvergedValueOnly(fval, dx, tol) ==
    /\ FLt(FAbs(fval.re), tol)
    /\ FLt(FAbs(fval.im), tol)

\* the convergence test of the Newton polish
NewtConverged(fval, dx, tol) ==
    /\ FLt(FAbs(fval.re), tol)
    /\ FLt(FAbs(fval.im), tol)
    /\ FLt(FAbs(dx.re), tol)
    /\ FLt(FAbs(dx.im), tol)

\* the derivative check of the Newton polish: abs(df(x)) < nxx::EPS
NewtFlat(dfx) == FLt(CAbs(dfx), EPS)

\* ------------------------------------------------------------------------
\* The calls
\* ------------------------------------------------------------------------

\* a polynomial with whole real coefficients
RealPoly(c) == [k \in 1..Len(c) |-> CReal(Lit(c[k]))]

\* largest max_iterations tried
MaxIter == 30

\* the polynomials tried, by order
Polys ==
    { RealPoly(<< 5 >>),
      RealPoly(<< 0 - 1, 3 >>),
      RealPoly(<< 0 - 2, 1 >>),
      << CReal(Lit(100000)), CReal(1) >>,
      RealPoly(<< 2, 0 - 3, 1 >>),
      RealPoly(<< 3, 0 - 5, 2 >>),
      RealPoly(<< 1, 0, 1 >>),
      << CReal(125), CReal(2 * Scale), CReal(Scale) >>,
      RealPoly(<< 0, 0, 1 >>),
      RealPoly(<< 0 - 6, 11, 0 - 6, 1 >>),
      RealPoly(<< 12, 4, 3, 1 >>),
      << CReal(Lit(100000)), CReal(Lit(100000)), CReal(Lit(100000)), CReal(1) >>,
      RealPoly(<< 24, 0 - 50, 35, 0 - 10, 1 >>),
      RealPoly(<< 4, 0, 0 - 5, 0, 1 >>),
      RealPoly(<< 2, 0 - 1, 0 - 3, 1, 1 >>),
      RealPoly(<< 2, 0 - 12, 18, 0 - 12, 3 >>),
      RealPoly(<< 0 - 12, 4, 15, 0 - 5, 0 - 3, 1 >>),
      RealPoly(<< 0 - 120, 274, 0 - 225, 85, 0 - 15, 1 >>) }

Tolerances == { 0 - Scale, 0, 1, 10, Scale, 20 * Scale }
MaxIters == { 0, 1, 3, MaxIter }
Guesses == { CZero, CReal(Scale) }
Ops == { "polysolve", "linear", "quadratic", "cubic", "laguerre", "sortRoots" }

\* the roots handed to sortRoots: in units; the first three are a chain whose
\* neighbours are closer than 1.0 in the real part and whose ends are not
Points ==
    { Cx(0, 30), Cx(60, 20), Cx(120, 10), Cx(60, 20 - Scale), Cx(200, Scale) }

\* largest number of roots handed to sortRoots
MaxRoots == 3

RootLists == UNION { [1..n -> Points] : n \in 1..MaxRoots }

VARIABLES
    op,              \* the public operation called
    poly,            \* its argument poly
    tolerance,       \* its argument tolerance
    max_iterations,  \* its argument max_iterations (polysolve, laguerre)
    guess,           \* its argument guess (laguerre)
    rt,              \* the output asked for: "complex" or "real"
    roots_arg,       \* its argument roots (sortRoots)
    pc,              \* the position of the call
    polynomial,      \* polysolve: the working copy
    original,        \* polysolve: the copy kept for the polish
    roots,           \* polysolve: the roots collected
    lag,             \* the frame of laguerre: its arguments, root and i
    root,            \* polysolve: what laguerre returned
    newt,            \* the frame of the lambda newt: f, x, i and dx
    polished_root,   \* polysolve: what newt returned
    result,          \* what the call returned or threw
    log,             \* the stages run so far, in order
    waiting,         \* the frame of a second call in another thread, while
                     \* this one runs
    ALGO,            \* diff: the algorithm it is instantiated with
    function,        \* diff: its argument function
    val,             \* diff: its argument val
    stepsize,        \* diff: its argument stepsize
    deriv,           \* diff: the number the algorithm returned
    evaluated        \* diff: the points at which function was called

\* what no step of a call writes: its arguments, and the frame of another call
derivative == << ALGO, function, val, stepsize, deriv, evaluated >>
inputs == << op, poly, tolerance, max_iterations, guess, rt, roots_arg, waiting,
             derivative >>
frame == << polynomial, original, roots >>
vars == << op, poly, tolerance, max_iterations, guess, rt, roots_arg, pc, polynomial,
           original, roots, lag, root, newt, polished_root, result, log, waiting,
           derivative >>

NoLag == [poly |-> << >>, guess |-> CZero, tolerance |-> 0, max_iterations |-> 0,
          root |-> CZero, i |-> 0, step |-> CZero]
NoNewt == [f |-> << >>, x |-> CZero, i |-> 0, dx |-> CZero]
Pending == [kind |-> "pending", val |-> << >>]
Thrown == [kind |-> "throw", val |-> << >>]
Failure == [kind |-> "error", val |-> << >>]
Value(v) == [kind |-> "value", val |-> v]

\* the frame of a call with these arguments, before its first step
Begin(o, p, t, m, g, r, ra) ==
    [op |-> o, poly |-> p, tolerance |-> t, max_iterations |-> m, guess |-> g, rt |-> r,
     roots_arg |-> ra, pc |-> "start", polynomial |-> << >>, original |-> << >>,
     roots |-> << >>, lag |-> NoLag, root |-> None, newt |-> NoNewt,
     polished_root |-> None, result |-> Pending, log |-> << >>]

\* no second call
NoCall == Begin("none", << >>, 0, 0, CZero, "complex", << >>)

Init ==
    /\ waiting = NoCall
    /\ ALGO = "none"
    /\ function = "none"
    /\ val = 0
    /\ stepsize = 0
    /\ deriv = 0
    /\ evaluated = { }
    /\ op \in Ops
    /\ poly \in (IF op = "sortRoots" THEN { << >> } ELSE Polys)
    /\ tolerance \in Tolerances
    /\ max_iterations \in (IF op \in {"polysolve", "laguerre"} THEN MaxIters ELSE {1})
    /\ guess \in (IF op = "laguerre" THEN Guesses ELSE {CZero})
    /\ rt \in (IF op = "laguerre" THEN {"complex"} ELSE {"complex", "real"})
    /\ roots_arg \in (IF op = "sortRoots" THEN RootLists ELSE { << >> })
    /\ pc = "start"
    /\ polynomial = << >>
    /\ original = << >>
    /\ roots = << >>
    /\ lag = NoLag
    /\ root = None
    /\ newt = NoNewt
    /\ polished_root = None
    /\ result = Pending
    /\ log = << >>

\* the call ends with res
Return(res) == pc' = "done" /\ result' = res

\* ---- impl::sortRoots called on its own ----

SortRootsCall ==
    /\ pc = "start" /\ op = "sortRoots"
    /\ IF tolerance <= 0
       THEN Return(Thrown) /\ UNCHANGED log
       ELSE \E sorted \in SortRoots(rt, roots_arg, tolerance) :
               /\ Return(Value(sorted))
               /\ log' = Append(log, "sortRoots")
    /\ UNCHANGED << inputs, frame, lag, root, newt, polished_root >>

\* ---- linear, quadratic, cubic called by the user ----

Linear ==
    /\ pc = "start" /\ op = "linear"
    /\ IF tolerance <= 0 \/ Order(poly) # 1
       THEN Return(Thrown) /\ UNCHANGED log
       ELSE \E sorted \in SortRoots(rt, LinearRoots(poly), tolerance) :
               /\ Return(Value(sorted))
               /\ log' = log \o << "linear", "linear.sort" >>
    /\ UNCHANGED << inputs, frame, lag, root, newt, polished_root >>

\* Quadratic throwing on an ill-formed equation
QuadraticThrowing ==
    /\ pc = "start" /\ op = "quadratic"
    /\ IF tolerance <= 0 \/ Order(poly) # 2
       THEN Return(Thrown) /\ UNCHANGED log
       ELSE \E discriminant \in { QuadraticDiscriminant(poly[3], poly[2], poly[1]) } :
            \E q \in { QuadraticQOf(poly[2], discriminant) } :
               IF QuadraticIllFormedOf(poly[3], q, tolerance)
               THEN Return(Thrown) /\ log' = log \o << "quadratic" >>
               ELSE \E quadroots \in { QuadraticRootsOf(poly, q) } :
                    \E sorted \in SortRoots(rt, quadroots, tolerance) :
                       /\ Return(Value(sorted))
                       /\ log' = log \o << "quadratic", "quadratic.sort" >>
    /\ UNCHANGED << inputs, frame, lag, root, newt, polished_root >>

Quadratic ==
    /\ pc = "start" /\ op = "quadratic"
    /\ IF tolerance <= 0 \/ Order(poly) # 2
       THEN Return(Thrown) /\ UNCHANGED log
       ELSE \E discriminant \in { QuadraticDiscriminant(poly[3], poly[2], poly[1]) } :
            \E q \in { QuadraticQOf(poly[2], discriminant) } :
               IF QuadraticIllFormedOf(poly[3], q, tolerance)
               THEN Return(Failure) /\ log' = log \o << "quadratic" >>
               ELSE \E quadroots \in { QuadraticRootsOf(poly, q) } :
                    \E sorted \in SortRoots(rt, quadroots, tolerance) :
                       /\ Return(Value(sorted))
                       /\ log' = log \o << "quadratic", "quadratic.sort" >>
    /\ UNCHANGED << inputs, frame, lag, root, newt, polished_root >>

Cubic ==
    /\ pc = "start" /\ op = "cubic"
    /\ IF tolerance <= 0 \/ Order(poly) # 3
       THEN Return(Thrown) /\ UNCHANGED log
       ELSE \E coeff \in { CubicCoeff(poly) } :
            \E Q \in { CubicQ(coeff[3], coeff[2]) } :
            \E R \in { CubicR(coeff[3], coeff[2], coeff[1]) } :
            \E sq \in { CubicSqrt(Q, R) } :
            \E radicand \in { CubicRadicand(R, sq) } :
            \E A \in { CubicA(radicand) } :
            \E B \in { CubicB(Q, A) } :
            \E cubicroots \in { CubicTriple(coeff[3], A, B) } :
            \E sorted \in SortRoots(rt, cubicroots, tolerance) :
               /\ Return(Value(sorted))
               /\ log' = log \o << "cubic", "cubic.sort" >>
    /\ UNCHANGED << inputs, frame, lag, root, newt, polished_root >>

\* ---- laguerre, called by the user or by polysolve ----

\* laguerre returns res to its caller
LaguerreReturn(res) ==
    IF op = "laguerre"
    THEN /\ Return(IF res.has THEN Value(<< res.val >>) ELSE Failure)
         /\ UNCHANGED root
    ELSE /\ pc' = "laguerre_returned"
         /\ root' = res
         /\ UNCHANGED result

\* the call of laguerre by the user
LaguerreCall ==
    /\ pc = "start" /\ op = "laguerre"
    /\ pc' = "laguerre"
    /\ lag' = [NoLag EXCEPT !.poly = poly, !.guess = guess, !.tolerance = tolerance,
                            !.max_iterations = max_iterations]
    /\ UNCHANGED << inputs, frame, root, newt, polished_root, result, log >>

\* the checks of laguerre and the test of the guess
LaguerreEnter ==
    /\ pc = "laguerre"
    /\ IF lag.tolerance <= 0 \/ lag.max_iterations < 1 \/ Order(lag.poly) <= 3
       THEN Return(Thrown) /\ UNCHANGED << lag, root, log >>
       ELSE /\ log' = Append(log, "laguerre")
            /\ IF FLt(CAbs(PolyEval(lag.poly, lag.guess)), lag.tolerance)
               THEN LaguerreReturn(Some(lag.guess)) /\ UNCHANGED lag
               ELSE /\ lag' = [lag EXCEPT !.root = lag.guess, !.i = 0]
                    /\ pc' = "laguerre_loop"
                    /\ UNCHANGED << root, result >>
    /\ UNCHANGED << inputs, frame, newt, polished_root >>

\* LaguerreIterate giving up one pass too late
LaguerreIterateOneMore ==
    /\ pc = "laguerre_loop"
    /\ IF lag.i > lag.max_iterations
       THEN LaguerreReturn(None) /\ UNCHANGED lag
       ELSE IF FLt(CAbs(PolyEval(lag.poly, lag.root)), lag.tolerance)
       THEN LaguerreReturn(Some(lag.root)) /\ UNCHANGED lag
       ELSE \E value \in { PolyEval(lag.poly, lag.root) } :
            \E d1value \in { PolyEval(DerivativeOf(lag.poly), lag.root) } :
            \E d2value \in { PolyEval(DerivativeOf(DerivativeOf(lag.poly)), lag.root) } :
            \E G \in { LaguerreG(d1value, value) } :
            \E H \in { LaguerreH(d2value, value, G) } :
            \E temp \in { LaguerreTemp(G, H) } :
            \E step \in { StepOrFallback(LaguerreStepOf(G, temp)) } :
               IF FLt(CAbs(step), lag.tolerance)
               THEN /\ LaguerreReturn(Some(lag.root))
                    /\ lag' = [lag EXCEPT !.step = step]
               ELSE \E r \in Dist :
                    \E applied \in { LaguerrePerturb(lag.i, step, r) } :
                       /\ lag' = [lag EXCEPT !.step = applied,
                                             !.root = CSub(lag.root, applied),
                                             !.i = lag.i + 1]
                       /\ pc' = "laguerre_loop"
                       /\ UNCHANGED << root, result >>
    /\ UNCHANGED << inputs, frame, newt, polished_root, log >>

\* one pass of the loop of laguerre
LaguerreIterate ==
    /\ pc = "laguerre_loop"
    /\ IF lag.i >= lag.max_iterations
       THEN LaguerreReturn(None) /\ UNCHANGED lag
       ELSE IF FLt(CAbs(PolyEval(lag.poly, lag.root)), lag.tolerance)
       THEN LaguerreReturn(Some(lag.root)) /\ UNCHANGED lag
       ELSE \E value \in { PolyEval(lag.poly, lag.root) } :
            \E d1value \in { PolyEval(DerivativeOf(lag.poly), lag.root) } :
            \E d2value \in { PolyEval(DerivativeOf(DerivativeOf(lag.poly)), lag.root) } :
            \E G \in { LaguerreG(d1value, value) } :
            \E H \in { LaguerreH(d2value, value, G) } :
            \E temp \in { LaguerreTemp(G, H) } :
            \E step \in { StepOrFallback(LaguerreStepOf(G, temp)) } :
               IF FLt(CAbs(step), lag.tolerance)
               THEN /\ LaguerreReturn(Some(lag.root))
                    /\ lag' = [lag EXCEPT !.step = step]
               ELSE \E r \in Dist :
                    \E applied \in { LaguerrePerturb(lag.i, step, r) } :
                       /\ lag' = [lag EXCEPT !.step = applied,
                                             !.root = CSub(lag.root, applied),
                                             !.i = lag.i + 1]
                       /\ pc' = "laguerre_loop"
                       /\ UNCHANGED << root, result >>
    /\ UNCHANGED << inputs, frame, newt, polished_root, log >>

\* ---- polysolve ----

\* PolysolveEnter without the check of max_iterations
PolysolveEnterUnchecked ==
    /\ pc = "start" /\ op = "polysolve"
    /\ IF tolerance <= 0 \/ Order(poly) < 1
       THEN Return(Thrown) /\ UNCHANGED frame
       ELSE /\ polynomial' = poly
            /\ original' = poly
            /\ roots' = << >>
            /\ pc' = "switch"
            /\ UNCHANGED result
    /\ UNCHANGED << inputs, lag, root, newt, polished_root, log >>

\* PolysolveEnter with roots a vector shared by all calls: emptying it
\* empties the one of the other call
PolysolveEnterSharedRoots ==
    /\ pc = "start" /\ op = "polysolve"
    /\ IF tolerance <= 0 \/ max_iterations < 1 \/ Order(poly) < 1
       THEN Return(Thrown) /\ UNCHANGED << frame, waiting >>
       ELSE /\ polynomial' = poly
            /\ original' = poly
            /\ roots' = << >>
            /\ waiting' = [waiting EXCEPT !.roots = << >>]
            /\ pc' = "switch"
            /\ UNCHANGED result
    /\ UNCHANGED << op, poly, tolerance, max_iterations, guess, rt, roots_arg, lag, root,
                    newt, polished_root, log, derivative >>

\* the checks of polysolve and its copies of the polynomial
PolysolveEnter ==
    /\ pc = "start" /\ op = "polysolve"
    /\ IF tolerance <= 0 \/ max_iterations < 1 \/ Order(poly) < 1
       THEN Return(Thrown) /\ UNCHANGED frame
       ELSE /\ polynomial' = poly
            /\ original' = poly
            /\ roots' = << >>
            /\ pc' = "switch"
            /\ UNCHANGED result
    /\ UNCHANGED << inputs, lag, root, newt, polished_root, log >>

\* case 1: linear< COMPLEX_TYPE >(polynomial), with the default tolerance
CaseLinear ==
    /\ pc = "switch" /\ Order(poly) = 1
    /\ IF EPS <= 0 \/ Order(polynomial) # 1
       THEN Return(Thrown) /\ UNCHANGED << roots, log >>
       ELSE \E linroot \in SortRoots("complex", LinearRoots(polynomial), EPS) :
               /\ roots' = roots \o linroot
               /\ log' = log \o << "linear", "linear.sort" >>
               /\ pc' = "sort"
               /\ UNCHANGED result
    /\ UNCHANGED << inputs, polynomial, original, lag, root, newt, polished_root >>

\* case 2: quadratic< COMPLEX_TYPE >(polynomial), with the default tolerance
CaseQuadratic ==
    /\ pc = "switch" /\ Order(poly) = 2
    /\ IF EPS <= 0 \/ Order(polynomial) # 2
       THEN Return(Thrown) /\ UNCHANGED << roots, log >>
       ELSE \E discriminant \in { QuadraticDiscriminant(polynomial[3], polynomial[2],
                                                         polynomial[1]) } :
            \E q \in { QuadraticQOf(polynomial[2], discriminant) } :
               IF QuadraticIllFormedOf(polynomial[3], q, EPS)
               THEN /\ Return(Failure)
                    /\ log' = log \o << "quadratic" >>
                    /\ UNCHANGED roots
               ELSE \E unsorted \in { QuadraticRootsOf(polynomial, q) } :
                    \E quadroots \in SortRoots("complex", unsorted, EPS) :
                       /\ roots' = roots \o quadroots
                       /\ log' = log \o << "quadratic", "quadratic.sort" >>
                       /\ pc' = "sort"
                       /\ UNCHANGED result
    /\ UNCHANGED << inputs, polynomial, original, lag, root, newt, polished_root >>

\* cubic< COMPLEX_TYPE >(p), with the default tolerance: the next position,
\* the roots appended and the stages run
CubicOf(p, next) ==
    IF EPS <= 0 \/ Order(p) # 3
    THEN Return(Thrown) /\ UNCHANGED << roots, log >>
    ELSE \E coeff \in { CubicCoeff(p) } :
         \E Q \in { CubicQ(coeff[3], coeff[2]) } :
         \E R \in { CubicR(coeff[3], coeff[2], coeff[1]) } :
         \E sq \in { CubicSqrt(Q, R) } :
         \E radicand \in { CubicRadicand(R, sq) } :
         \E A \in { CubicA(radicand) } :
         \E B \in { CubicB(Q, A) } :
         \E unsorted \in { CubicTriple(coeff[3], A, B) } :
         \E cubicroots \in SortRoots("complex", unsorted, EPS) :
            /\ roots' = roots \o cubicroots
            /\ log' = log \o << "cubic", "cubic.sort" >>
            /\ pc' = next
            /\ UNCHANGED result

\* case 3
CaseCubic ==
    /\ pc = "switch" /\ Order(poly) = 3
    /\ CubicOf(polynomial, "sort")
    /\ UNCHANGED << inputs, polynomial, original, lag, root, newt, polished_root >>

\* default: enter the loop
CaseDefault ==
    /\ pc = "switch" /\ Order(poly) > 3
    /\ pc' = "while"
    /\ UNCHANGED << inputs, frame, lag, root, newt, polished_root, result, log >>

\* While leaving the loop one order too late
WhileOffByOne ==
    /\ pc = "while"
    /\ IF Order(polynomial) >= 3
       THEN /\ lag' = [NoLag EXCEPT !.poly = polynomial, !.guess = CZero,
                                    !.tolerance = tolerance,
                                    !.max_iterations = max_iterations]
            /\ pc' = "laguerre"
       ELSE /\ pc' = "cubic"
            /\ UNCHANGED lag
    /\ UNCHANGED << inputs, frame, root, newt, polished_root, result, log >>

\* the head of the loop: call laguerre(polynomial, 0.0, tolerance, max_iterations)
\* while the order is above 3
While ==
    /\ pc = "while"
    /\ IF Order(polynomial) > 3
       THEN /\ lag' = [NoLag EXCEPT !.poly = polynomial, !.guess = CZero,
                                    !.tolerance = tolerance,
                                    !.max_iterations = max_iterations]
            /\ pc' = "laguerre"
       ELSE /\ pc' = "cubic"
            /\ UNCHANGED lag
    /\ UNCHANGED << inputs, frame, root, newt, polished_root, result, log >>

\* AfterLaguerre going on to the sort with the roots found so far when
\* laguerre fails
AfterLaguerrePartial ==
    /\ pc = "laguerre_returned"
    /\ IF ~root.has
       THEN pc' = "sort" /\ UNCHANGED << roots, newt, log, result >>
       ELSE /\ roots' = Append(roots, root.val)
            /\ newt' = [f |-> original, x |-> root.val, i |-> 0, dx |-> CZero]
            /\ log' = Append(log, "newt")
            /\ pc' = "newt"
            /\ UNCHANGED result
    /\ UNCHANGED << inputs, polynomial, original, lag, root, polished_root >>

\* AfterLaguerre polishing on the working copy, the deflated polynomial
AfterLaguerrePolishDeflated ==
    /\ pc = "laguerre_returned"
    /\ IF ~root.has
       THEN Return(Failure) /\ UNCHANGED << roots, newt, log >>
       ELSE /\ roots' = Append(roots, root.val)
            /\ newt' = [f |-> polynomial, x |-> root.val, i |-> 0, dx |-> CZero]
            /\ log' = Append(log, "newt")
            /\ pc' = "newt"
            /\ UNCHANGED result
    /\ UNCHANGED << inputs, polynomial, original, lag, root, polished_root >>

\* after laguerre: give up, or keep the root and call newt(original, roots.back())
AfterLaguerre ==
    /\ pc = "laguerre_returned"
    /\ IF ~root.has
       THEN Return(Failure) /\ UNCHANGED << roots, newt, log >>
       ELSE /\ roots' = Append(roots, root.val)
            /\ newt' = [f |-> original, x |-> root.val, i |-> 0, dx |-> CZero]
            /\ log' = Append(log, "newt")
            /\ pc' = "newt"
            /\ UNCHANGED result
    /\ UNCHANGED << inputs, polynomial, original, lag, root, polished_root >>

\* one pass of the loop of newt
NewtIterate ==
    /\ pc = "newt"
    /\ \E dfx \in { PolyEval(DerivativeOf(newt.f), newt.x) } :
       IF newt.i >= max_iterations \/ NewtFlat(dfx)
       THEN /\ polished_root' = None
            /\ pc' = "newt_returned"
            /\ UNCHANGED newt
       ELSE \E fx \in { PolyEval(newt.f, newt.x) } :
            \E dx \in { CDiv(fx, dfx) } :
            \E x \in { CSub(newt.x, dx) } :
            \E fval \in { PolyEval(newt.f, x) } :
               IF NewtConverged(fval, dx, tolerance)
               THEN /\ polished_root' = Some(x)
                    /\ newt' = [newt EXCEPT !.x = x, !.dx = dx]
                    /\ pc' = "newt_returned"
               ELSE /\ newt' = [newt EXCEPT !.x = x, !.dx = dx, !.i = newt.i + 1]
                    /\ pc' = "newt"
                    /\ UNCHANGED polished_root
    /\ UNCHANGED << inputs, frame, lag, root, result, log >>

\* AfterNewt leaving the estimate of laguerre in roots.back()
AfterNewtKeepsEstimate ==
    /\ pc = "newt_returned"
    /\ IF ~polished_root.has
       THEN Return(Failure) /\ UNCHANGED roots
       ELSE /\ UNCHANGED roots
            /\ pc' = "isfinite"
            /\ UNCHANGED result
    /\ UNCHANGED << inputs, polynomial, original, lag, root, newt, polished_root, log >>

\* after newt: give up, or replace roots.back() by the polished root
AfterNewt ==
    /\ pc = "newt_returned"
    /\ IF ~polished_root.has
       THEN Return(Failure) /\ UNCHANGED roots
       ELSE /\ roots' = [roots EXCEPT ![Len(roots)] = polished_root.val]
            /\ pc' = "isfinite"
            /\ UNCHANGED result
    /\ UNCHANGED << inputs, polynomial, original, lag, root, newt, polished_root, log >>

\* the root is valid when the original polynomial is finite there
RootIsFinite(f, x) == CIsFinite(PolyEval(f, x))

CheckFinite ==
    /\ pc = "isfinite"
    /\ log' = Append(log, "isfinite")
    /\ IF ~RootIsFinite(original, Back(roots))
       THEN Return(Failure)
       ELSE pc' = "deflate" /\ UNCHANGED result
    /\ UNCHANGED << inputs, frame, lag, root, newt, polished_root >>

\* Deflate with original sharing the coefficients of the working copy
DeflateAliased ==
    /\ pc = "deflate"
    /\ polynomial' = DeflateBy(polynomial, Back(roots))
    /\ original' = polynomial'
    /\ log' = Append(log, "deflate")
    /\ pc' = "while"
    /\ UNCHANGED << inputs, roots, lag, root, newt, polished_root, result >>

\* polynomial /= Polynomial { -roots.back(), 1.0 }
Deflate ==
    /\ pc = "deflate"
    /\ polynomial' = DeflateBy(polynomial, Back(roots))
    /\ log' = Append(log, "deflate")
    /\ pc' = "while"
    /\ UNCHANGED << inputs, original, roots, lag, root, newt, polished_root, result >>

\* RemainingCubic inside the loop: the head of the loop comes next
RemainingCubicInLoop ==
    /\ pc = "cubic"
    /\ CubicOf(polynomial, "while")
    /\ UNCHANGED << inputs, polynomial, original, lag, root, newt, polished_root >>

\* after the loop: the remaining cubic
RemainingCubic ==
    /\ pc = "cubic"
    /\ CubicOf(polynomial, "sort")
    /\ UNCHANGED << inputs, polynomial, original, lag, root, newt, polished_root >>

\* the last statement: sortRoots< RET >(roots, tolerance)
SortAndReturn ==
    /\ pc = "sort"
    /\ IF tolerance <= 0
       THEN Return(Thrown) /\ UNCHANGED log
       ELSE \E sorted \in SortRoots(rt, roots, tolerance) :
               /\ Return(Value(sorted))
               /\ log' = Append(log, "polysolve.sort")
    /\ UNCHANGED << inputs, frame, lag, root, newt, polished_root >>

Next ==
    \/ SortRootsCall
    \/ Linear
    \/ Quadratic
    \/ Cubic
    \/ LaguerreCall
    \/ LaguerreEnter
    \/ LaguerreIterate
    \/ PolysolveEnter
    \/ CaseLinear
    \/ CaseQuadratic
    \/ CaseCubic
    \/ CaseDefault
    \/ While
    \/ AfterLaguerre
    \/ NewtIterate
    \/ AfterNewt
    \/ CheckFinite
    \/ Deflate
    \/ RemainingCubic
    \/ SortAndReturn

Spec == Init /\ [][Next]_vars

\* ------------------------------------------------------------------------
\* Two calls in two threads
\* ------------------------------------------------------------------------

\* the frame of the running call
Frame ==
    [op |-> op, poly |-> poly, tolerance |-> tolerance, max_iterations |-> max_iterations,
     guess |-> guess, rt |-> rt, roots_arg |-> roots_arg, pc |-> pc,
     polynomial |-> polynomial, original |-> original, roots |-> roots, lag |-> lag,
     root |-> root, newt |-> newt, polished_root |-> polished_root, result |-> result,
     log |-> log]

\* the calls started in the first thread: one of each operation, and
\* polysolve on each order
FirstCalls ==
    { Begin("sortRoots", << >>, Scale, 1, CZero, "complex",
            << Cx(0, 30), Cx(60, 20), Cx(120, 10) >>),
      Begin("linear", RealPoly(<< 0 - 2, 1 >>), 10, 1, CZero, "real", << >>),
      Begin("quadratic", RealPoly(<< 2, 0 - 3, 1 >>), 10, 1, CZero, "complex", << >>),
      Begin("cubic", RealPoly(<< 0 - 6, 11, 0 - 6, 1 >>), 10, 1, CZero, "complex", << >>),
      Begin("laguerre", RealPoly(<< 4, 0, 0 - 5, 0, 1 >>), 10, MaxIter, CReal(Scale),
            "complex", << >>),
      Begin("laguerre", RealPoly(<< 2, 0 - 1, 0 - 3, 1, 1 >>), 10, 2, CZero, "complex",
            << >>),
      Begin("polysolve", RealPoly(<< 0 - 2, 1 >>), 10, MaxIter, CZero, "complex", << >>),
      Begin("polysolve", RealPoly(<< 1, 0, 1 >>), 10, MaxIter, CZero, "complex", << >>),
      Begin("polysolve", RealPoly(<< 12, 4, 3, 1 >>), 10, MaxIter, CZero, "complex", << >>),
      Begin("polysolve", RealPoly(<< 24, 0 - 50, 35, 0 - 10, 1 >>), 10, MaxIter, CZero,
            "complex", << >>) }

\* the calls started in the second thread; the last is also one of the first
SecondCalls ==
    { Begin("polysolve", RealPoly(<< 4, 0, 0 - 5, 0, 1 >>), 10, MaxIter, CZero, "real",
            << >>),
      Begin("polysolve", RealPoly(<< 2, 0 - 3, 1 >>), Scale, 3, CZero, "complex", << >>),
      Begin("laguerre", RealPoly(<< 2, 0 - 1, 0 - 3, 1, 1 >>), 10, 2, CZero, "complex",
            << >>) }

InitTwo ==
    /\ \E c \in FirstCalls :
          /\ op = c.op
          /\ poly = c.poly
          /\ tolerance = c.tolerance
          /\ max_iterations = c.max_iterations
          /\ guess = c.guess
          /\ rt = c.rt
          /\ roots_arg = c.roots_arg
          /\ pc = c.pc
          /\ polynomial = c.polynomial
          /\ original = c.original
          /\ roots = c.roots
          /\ lag = c.lag
          /\ root = c.root
          /\ newt = c.newt
          /\ polished_root = c.polished_root
          /\ result = c.result
          /\ log = c.log
    /\ waiting \in SecondCalls
    /\ ALGO = "none"
    /\ function = "none"
    /\ val = 0
    /\ stepsize = 0
    /\ deriv = 0
    /\ evaluated = { }

\* the scheduler takes the running thread off the processor and puts the
\* other one on
Switch ==
    /\ waiting.op # "none"
    /\ waiting' = Frame
    /\ op' = waiting.op
    /\ poly' = waiting.poly
    /\ tolerance' = waiting.tolerance
    /\ max_iterations' = waiting.max_iterations
    /\ guess' = waiting.guess
    /\ rt' = waiting.rt
    /\ roots_arg' = waiting.roots_arg
    /\ pc' = waiting.pc
    /\ polynomial' = waiting.polynomial
    /\ original' = waiting.original
    /\ roots' = waiting.roots
    /\ lag' = waiting.lag
    /\ root' = waiting.root
    /\ newt' = waiting.newt
    /\ polished_root' = waiting.polished_root
    /\ result' = waiting.result
    /\ log' = waiting.log
    /\ UNCHANGED derivative

NextTwo == Next \/ Switch

TwoCalls == InitTwo /\ [][NextTwo]_vars


\* ------------------------------------------------------------------------
\* Numerical derivatives (nxx::deriv)
\* ------------------------------------------------------------------------

\* std::max(a, b): b when a < b, else a
FMax(a, b) == IF FLt(a, b) THEN b ELSE a

CentralAlgos ==
    { "Order1CentralRichardson", "Order1Central3Point", "Order1Central5Point",
      "Order2Central3Point", "Order2Central5Point" }

ForwardAlgos ==
    { "Order1ForwardRichardson", "Order1Forward2Point", "Order1Forward3Point",
      "Order2Forward3Point", "Order2Forward4Point" }

BackwardAlgos ==
    { "Order1BackwardRichardson", "Order1Backward2Point", "Order1Backward3Point",
      "Order2Backward3Point", "Order2Backward4Point" }

\* the functions differentiated: std::sqrt(x), 1.0 / (x + 1) and
\* 2 * std::pow(x, 2) + 3 * x - 4
Functions == { "sqrt", "reciprocal", "parabola" }

\* function(x)
Call(f, x) ==
    CASE f = "sqrt" -> FSqrt(x)
      [] f = "reciprocal" -> FDiv(Lit(1), FAdd(x, Lit(1)))
      [] f = "parabola" ->
            FSub(FAdd(FMul(Lit(2), FMul(x, x)), FMul(Lit(3), x)), Lit(4))

\* x + k * h and x - k * h
Ahead(x, k, h) == FAdd(x, FMul(Lit(k), h))
Behind(x, k, h) == FSub(x, FMul(Lit(k), h))

\* the arguments of the calls of function made by algorithm algo at x with
\* step h, in the order they stand in its operator()
Arguments(algo, x, h) ==
    CASE algo = "Order1CentralRichardson" ->
            << Ahead(x, 1, h), Behind(x, 1, h), Ahead(x, 2, h), Behind(x, 2, h) >>
      [] algo = "Order1Central3Point" -> << Ahead(x, 1, h), Behind(x, 1, h) >>
      [] algo = "Order1Central5Point" ->
            << Ahead(x, 2, h), Ahead(x, 1, h), Behind(x, 1, h), Behind(x, 2, h) >>
      [] algo = "Order2Central3Point" -> << Ahead(x, 1, h), x, Behind(x, 1, h) >>
      [] algo = "Order2Central5Point" ->
            << Ahead(x, 2, h), Ahead(x, 1, h), x, Behind(x, 1, h), Behind(x, 2, h) >>
      [] algo = "Order1ForwardRichardson" ->
            << Ahead(x, 1, h), Ahead(x, 2, h), Ahead(x, 3, h), Ahead(x, 4, h) >>
      [] algo = "Order1Forward2Point" -> << Ahead(x, 1, h), x >>
      [] algo = "Order1Forward3Point" -> << Ahead(x, 2, h), Ahead(x, 1, h), x >>
      [] algo = "Order2Forward3Point" -> << Ahead(x, 2, h), Ahead(x, 1, h), x >>
      [] algo = "Order2Forward4Point" ->
            << Ahead(x, 3, h), Ahead(x, 2, h), Ahead(x, 1, h), x >>
      [] algo = "Order1BackwardRichardson" ->
            << Behind(x, 1, h), Behind(x, 2, h), Behind(x, 3, h), Behind(x, 4, h) >>
      [] algo = "Order1Backward2Point" -> << x, Behind(x, 1, h) >>
      [] algo = "Order1Backward3Point" -> << x, Behind(x, 1, h), Behind(x, 2, h) >>
      [] algo = "Order2Backward3Point" -> << x, Behind(x, 1, h), Behind(x, 2, h) >>
      [] algo = "Order2Backward4Point" ->
            << x, Behind(x, 1, h), Behind(x, 2, h), Behind(x, 3, h) >>

\* 22.0 * (diff4 - diff3) - 62.0 * (diff3 - diff2) + 52.0 * (diff2 - diff1)
Richardson(y) ==
    FAdd(FSub(FMul(Lit(22), FSub(y[4], y[3])), FMul(Lit(62), FSub(y[3], y[2]))),
         FMul(Lit(52), FSub(y[2], y[1])))

\* what algorithm algo returns, y being the values of function at
\* Arguments(algo, x, h); std::pow(h, 2) is h * h
Quotient(algo, y, h) ==
    CASE algo = "Order1CentralRichardson" ->
            FDiv(FSub(FMul(Lit(4), FSub(y[1], y[2])),
                      FMul(Scale \div 2, FSub(y[3], y[4]))),
                 FMul(h, Lit(6)))
      [] algo = "Order1Central3Point" -> FDiv(FSub(y[1], y[2]), FMul(Lit(2), h))
      [] algo = "Order1Central5Point" ->
            FDiv(FAdd(FSub(FAdd(FNeg(y[1]), FMul(Lit(8), y[2])), FMul(Lit(8), y[3])),
                      y[4]),
                 FMul(Lit(12), h))
      [] algo = "Order2Central3Point" ->
            FDiv(FAdd(FSub(y[1], FMul(Lit(2), y[2])), y[3]), FMul(h, h))
      [] algo = "Order2Central5Point" ->
            FDiv(FSub(FAdd(FSub(FAdd(FNeg(y[1]), FMul(Lit(16), y[2])),
                                FMul(Lit(30), y[3])),
                           FMul(Lit(16), y[4])),
                      y[5]),
                 FMul(Lit(12), FMul(h, h)))
      [] algo = "Order1ForwardRichardson" -> FDiv(Richardson(y), FMul(h, Lit(12)))
      [] algo = "Order1Forward2Point" -> FDiv(FSub(y[1], y[2]), h)
      [] algo = "Order1Forward3Point" ->
            FDiv(FSub(FAdd(FNeg(y[1]), FMul(Lit(4), y[2])), FMul(Lit(3), y[3])),
                 FMul(Lit(2), h))
      [] algo = "Order2Forward3Point" ->
            FDiv(FAdd(FSub(y[1], FMul(Lit(2), y[2])), y[3]), FMul(h, h))
      [] algo = "Order2Forward4Point" ->
            FDiv(FAdd(FSub(FAdd(FNeg(y[1]), FMul(Lit(4), y[2])), FMul(Lit(5), y[3])),
                      FMul(Lit(2), y[4])),
                 FMul(h, h))
      [] algo = "Order1BackwardRichardson" ->
            FDiv(Richardson(y), FNeg(FMul(h, Lit(12))))
      [] algo = "Order1Backward2Point" -> FDiv(FSub(y[1], y[2]), h)
      [] algo = "Order1Backward3Point" ->
            FDiv(FAdd(FSub(FMul(Lit(3), y[1]), FMul(Lit(4), y[2])), y[3]),
                 FMul(Lit(2), h))
      [] algo = "Order2Backward3Point" ->
            FDiv(FAdd(FSub(y[1], FMul(Lit(2), y[2])), y[3]), FMul(h, h))
      [] algo = "Order2Backward4Point" ->
            FDiv(FSub(FAdd(FSub(FMul(Lit(2), y[1]), FMul(Lit(5), y[2])),
                           FMul(Lit(4), y[3])),
                      y[4]),
                 FMul(h, h))

\* ALGO {}(function, x, h): function is called at the arguments of the
\* algorithm and its values are combined
Derivative(algo, f, x, h) ==
    Quotient(algo, [k \in DOMAIN Arguments(algo, x, h) |-> Call(f, Arguments(algo, x, h)[k])],
             h)

\* the step taken relative to val only: stepsize * val
EffectiveStepRelative(x, h) == FMul(h, x)

\* the step diff hands to the algorithm: std::max(stepsize, stepsize * val)
EffectiveStep(x, h) == FMax(h, FMul(h, x))

\* diff without its test of the number computed
ExpectedUnchecked(d) == Value(d)

\* what diff places in its result
Expected(d) == IF IsFinite(d) THEN Value(d) ELSE Failure

\* the points at which a call of diff evaluates function: those of the
\* algorithm and, for the error it reports, val
EvaluatedBy(algo, x, h, d) ==
    { Arguments(algo, x, h)[k] : k \in DOMAIN Arguments(algo, x, h) }
        \cup (IF IsFinite(d) THEN { } ELSE { x })

\* diff< algo >(function, val, stepsize)
DiffOf(algo) ==
    /\ pc = "start"
    /\ \E d \in { Derivative(algo, function, val, EffectiveStep(val, stepsize)) } :
          /\ deriv' = d
          /\ evaluated' = EvaluatedBy(algo, val, EffectiveStep(val, stepsize), d)
          /\ Return(Expected(d))
    /\ ALGO' = algo
    /\ UNCHANGED << op, poly, tolerance, max_iterations, guess, rt, roots_arg, waiting,
                    function, val, stepsize, frame, lag, root, newt, polished_root, log >>

Diff == op = "diff" /\ DiffOf(ALGO)

Central == op = "central" /\ DiffOf("Order1CentralRichardson")

Forward == op = "forward" /\ DiffOf("Order1ForwardRichardson")

Backward == op = "backward" /\ DiffOf("Order1BackwardRichardson")

\* the points of evaluation and the steps, in units
Vals == { 0 - Scale, 0, Scale, 4 * Scale, MaxFloat }
Steps == { 0 - 10, 0, 1, 10, Scale }

InitDiff ==
    /\ op \in { "diff", "central", "forward", "backward" }
    /\ ALGO \in (IF op = "diff" THEN CentralAlgos \cup ForwardAlgos \cup BackwardAlgos
                 ELSE { "none" })
    /\ function \in Functions
    /\ val \in Vals
    /\ stepsize \in Steps
    /\ deriv = 0
    /\ evaluated = { }
    /\ waiting = NoCall
    /\ poly = << >>
    /\ tolerance = 0
    /\ max_iterations = 0
    /\ guess = CZero
    /\ rt = "real"
    /\ roots_arg = << >>
    /\ pc = "start"
    /\ polynomial = << >>
    /\ original = << >>
    /\ roots = << >>
    /\ lag = NoLag
    /\ root = None
    /\ newt = NoNewt
    /\ polished_root = None
    /\ result = Pending
    /\ log = << >>

NextDiff == Diff \/ Central \/ Forward \/ Backward

DiffSpec == InitDiff /\ [][NextDiff]_vars

\* ------------------------------------------------------------------------
\* Properties
\* ------------------------------------------------------------------------

\* the call is a sequential program that runs until it returns: weak
\* fairness of Next, with ENABLED << Next >>_vars written out as pc # "done"
\* (a step is possible in every state but the last)
FairSpec == Spec /\ ([]<>(pc = "done") \/ []<><< Next >>_vars)

\* the call has ended
Done == pc = "done"

\* the arguments fail the checks the called operation starts with
InvalidConfiguration ==
    CASE op = "polysolve" -> tolerance <= 0 \/ max_iterations < 1 \/ Order(poly) < 1
      [] op = "linear"    -> tolerance <= 0 \/ Order(poly) # 1
      [] op = "quadratic" -> tolerance <= 0 \/ Order(poly) # 2
      [] op = "cubic"     -> tolerance <= 0 \/ Order(poly) # 3
      [] op = "laguerre"  -> tolerance <= 0 \/ max_iterations < 1 \/ Order(poly) <= 3
      [] op = "sortRoots" -> tolerance <= 0

\* how many times stage s has run
Count(s) == Cardinality({ i \in 1..Len(log) : log[i] = s })

\* C1: a call with an invalid configuration never yields a root set: no stage
\* has run, no root has been collected, and the call ends in a failure.
InvalidConfigurationYieldsNoRoots ==
    InvalidConfiguration =>
        /\ log = << >>
        /\ roots = << >>
        /\ result.val = << >>
        /\ result.kind # "value"
        /\ Done => result.kind \in { "throw", "error" }

\* a call of polysolve with max_iterations < 1 and otherwise valid arguments
\* has ended
InvalidConfigurationEnded ==
    /\ op = "polysolve" /\ Done
    /\ max_iterations < 1 /\ tolerance > 0 /\ Order(poly) >= 1
    /\ result.kind = "throw"

\* a stage of polysolve has just failed
StageFailed ==
    \/ pc = "laguerre_returned" /\ ~root.has
    \/ pc = "newt_returned" /\ ~polished_root.has
    \/ pc = "isfinite" /\ ~RootIsFinite(original, Back(roots))
    \/ pc = "switch" /\ Order(poly) = 2 /\ QuadraticIllFormed(polynomial, EPS)

\* C2: polysolve has no partial success: once a stage fails, the next step
\* ends the call with a failure that carries no roots, without running a
\* further stage, and nothing runs after the call has ended.
NoPartialSuccess ==
    [][op = "polysolve" =>
          /\ StageFailed =>
                /\ result' = Failure
                /\ pc' = "done"
                /\ \A s \in { "laguerre", "newt", "deflate", "cubic", "polysolve.sort" } :
                      Count(s)' = Count(s)
          /\ result'.kind = "error" => result'.val = << >> /\ pc' = "done"
          /\ ~Done]_vars

\* polysolve has failed after a round that extracted, polished and deflated
FailedAfterARound ==
    /\ op = "polysolve" /\ Done
    /\ result = Failure
    /\ Len(roots) >= 1
    /\ Count("deflate") >= 1

\* C3 as stated: every failure reaches the caller as the failure alternative
\* of the result, none as a raised exception.
EveryFailureIsReturned == Done => result.kind \in { "value", "error" }

\* C3: the failures of the checks of the arguments (tolerance, max_iterations,
\* order) are raised as exceptions; every other failure reaches the caller as
\* the failure alternative of the result.
ConfigurationThrowsOthersReturn ==
    Done => IF InvalidConfiguration THEN result = Thrown
            ELSE result.kind \in { "value", "error" }

\* quadratic, validly called on an ill-formed equation, has returned a failure
IllFormedReturned ==
    /\ op = "quadratic" /\ Done
    /\ ~InvalidConfiguration
    /\ result = Failure

\* polysolve has returned a root set
Solved == op = "polysolve" /\ Done /\ result.kind = "value"

\* C4 as stated: every root of a successful polysolve call is finite.
SolvedRootsAreFinite ==
    Solved => \A i \in 1..Len(result.val) : CIsFinite(result.val[i])

\* C5 as stated: the input polynomial, evaluated at each root of a successful
\* polysolve call, has a magnitude below the tolerance.
SolvedRootsHaveSmallResidual ==
    Solved => \A i \in 1..Len(result.val) :
                  FLt(CAbs(PolyEval(poly, result.val[i])), tolerance)

\* the last stage run, if any
LastStage == IF log = << >> THEN "none" ELSE Back(log)

\* every stage run is one of stages
OnlyStages(stages) == \A i \in 1..Len(log) : log[i] \in stages

\* s and t hold the same elements, each as many times
SameElements(s, t) ==
    /\ Len(s) = Len(t)
    /\ \A i \in 1..Len(s) :
          Cardinality({ j \in 1..Len(s) : s[j] = s[i] })
              = Cardinality({ j \in 1..Len(t) : t[j] = s[i] })

Runs(s) == log' = Append(log, s)

\* C7: every round of the loop runs laguerre (with guess 0, on the current
\* polynomial), then the polish, then the check of finiteness, then the
\* deflation; the polynomial is deflated only after the three have succeeded
\* and by the polished root.
RoundOrder ==
    [][op = "polysolve" =>
          /\ pc = "laguerre" =>
                /\ lag.guess = CZero
                /\ lag.poly = polynomial
                /\ LastStage \in { "none", "deflate" }
          /\ Runs("laguerre") => LastStage \in { "none", "deflate" }
          /\ Runs("newt") =>
                /\ LastStage = "laguerre"
                /\ root.has
                /\ newt'.f = original /\ newt'.x = root.val
          /\ Runs("isfinite") => LastStage = "newt" /\ polished_root.has
          /\ Runs("deflate") =>
                /\ LastStage = "isfinite"
                /\ root.has /\ polished_root.has
                /\ RootIsFinite(original, polished_root.val)
                /\ Back(roots) = polished_root.val
                /\ polynomial' = DeflateBy(polynomial, polished_root.val)
          /\ polynomial' # polynomial => Runs("deflate") \/ pc = "start"]_vars

\* the second round is about to deflate by a polished root that differs from
\* the estimate of laguerre
DeflatingByPolishedRoot ==
    /\ op = "polysolve" /\ pc = "deflate"
    /\ Len(roots) = 2
    /\ polished_root.val # root.val
    /\ Back(roots) = polished_root.val

DeflatedRootIsRootOfCurrent ==
    (op = "polysolve" /\ pc = "deflate") =>
        /\ FLt(CAbs(PolyEval(polynomial, Back(roots))), tolerance)
        /\ \A i \in 1..(Len(roots) - 1) : roots[i] # Back(roots)

\* C10: with complex output a successful polysolve call returns as many roots
\* as the order of its argument, and as many are handed to the last sort.
ComplexOutputHasOrderRoots ==
    (op = "polysolve" /\ rt = "complex") =>
        /\ pc = "sort" => Len(roots) = Order(poly)
        /\ Solved => Len(result.val) = Order(poly) /\ SameElements(result.val, roots)

\* polysolve has returned the five roots of a polynomial of order 5, some of
\* them off the real axis
FiveComplexRoots ==
    /\ Solved /\ rt = "complex"
    /\ Order(poly) = 5
    /\ Len(result.val) = 5
    /\ \E i \in 1..5 : result.val[i].im # 0

\* C11: in every round of polysolve, also after deflations, newt iterates on
\* the polynomial as it was given, not on the deflated working copy, and it
\* starts from the estimate that laguerre returned for the working copy.
PolishOnOriginal ==
    [][op = "polysolve" /\ pc' = "newt" =>
          /\ newt'.f = poly
          /\ pc = "laguerre_returned" =>
                /\ lag.poly = polynomial
                /\ root.has
                /\ newt'.x = root.val
                /\ newt'.i = 0
          /\ pc = "newt" => newt'.f = newt.f]_vars

\* newt is iterating in a round that follows a deflation: the working copy
\* is no longer the polynomial that newt iterates on
PolishingAfterDeflation ==
    /\ op = "polysolve" /\ pc = "newt"
    /\ Count("deflate") >= 1
    /\ Order(polynomial) < Order(poly)
    /\ newt.f = poly
    /\ newt.i >= 1

\* C12: throughout a call of polysolve the copy original is never changed,
\* and neither is the polynomial of the caller: from the moment the copies
\* are made, through every deflation and up to the return, with a root set
\* or with a failure, original has the coefficients that were given.
OriginalNeverChanged ==
    [][/\ poly' = poly
       /\ op = "polysolve" /\ pc # "start" /\ result # Thrown =>
             /\ original = poly
             /\ original' = poly
       /\ op = "polysolve" /\ pc = "deflate" =>
             /\ polynomial' # polynomial
             /\ original' = original]_vars

\* polysolve has failed after a deflation: the working copy has lost an
\* order and original is as given
OriginalIntactAtFailure ==
    /\ op = "polysolve" /\ Done /\ result = Failure
    /\ Count("deflate") >= 1
    /\ Order(polynomial) < Order(poly)
    /\ original = poly

\* sortRoots was called with a valid tolerance and has returned
Sorted == op = "sortRoots" /\ Done /\ tolerance > 0

\* the given roots whose imaginary part is below the cutoff sqrt(tolerance)
NearReal == SelectSeq(roots_arg, LAMBDA z : FAbs(z.im) < FSqrt(tolerance))

\* C13: the sorter returns, for complex output, the given roots in some
\* order, none dropped and none duplicated; for real output, the real parts
\* of exactly the given roots with |imaginary part| < sqrt(tolerance), one
\* value per such root; a root at the cutoff is dropped.
SorterKeepsMultiset ==
    Sorted =>
        /\ result.kind = "value"
        /\ rt = "complex" => SameElements(result.val, roots_arg)
        /\ rt = "real" =>
              SameElements(result.val, [i \in 1..Len(NearReal) |-> Cx(NearReal[i].re, 0)])

\* real output: a given root at the cutoff was dropped and another was kept
CutoffRootDropped ==
    /\ Sorted /\ rt = "real"
    /\ \E i \in 1..Len(roots_arg) : FAbs(roots_arg[i].im) = FSqrt(tolerance)
    /\ Len(result.val) >= 1
    /\ Len(result.val) < Len(roots_arg)

\* the roots s in the order f
Reordered(s, f) == [i \in 1..Len(s) |-> s[f[i]]]

\* C14: the output of the sorter is canonical: it depends only on the
\* multiset of the given roots and the tolerance, so the same roots given in
\* any other order can only give the sequence that was returned.
SorterOutputIsCanonical ==
    Sorted =>
        \A f \in Perms(Len(roots_arg)) :
            SortRoots(rt, Reordered(roots_arg, f), tolerance) = { result.val }

\* the ordering rule of the sorter for a root a placed before a root b
InOrder(a, b, toleranceSqrt) ==
    IF FAbs(FSub(a.re, b.re)) < toleranceSqrt THEN a.im <= b.im ELSE a.re < b.re

\* C15: in the sequence returned for complex output every two positions
\* i < j obey the ordering rule: real parts closer than sqrt(tolerance) go by
\* ascending imaginary part, all others by ascending real part.
SorterOrdersAllPairs ==
    Sorted /\ rt = "complex" =>
        \A i, j \in 1..Len(result.val) :
            i < j => InOrder(result.val[i], result.val[j], FSqrt(tolerance))

\* C16: real output is in ascending order, whichever solver returns it.
RealOutputAscending ==
    /\ op \in { "linear", "quadratic", "cubic", "polysolve" }
    /\ Done /\ result.kind = "value" /\ rt = "real"
    => \A i, j \in 1..Len(result.val) :
          i < j => result.val[i].re <= result.val[j].re

\* the iteration counters are within the budget max_iterations, and polysolve
\* has started at most order - 3 rounds
WithinBudget ==
    /\ lag.i <= lag.max_iterations
    /\ newt.i <= max_iterations
    /\ op = "polysolve" =>
          /\ Count("laguerre") <= IMax(Order(poly) - 3, 0)
          /\ Count("newt") <= Count("laguerre")
          /\ lag.max_iterations \in { 0, max_iterations }

\* a step that updates an estimate spends one unit of the budget of the call
\* of laguerre or newt it belongs to, and each call starts with a full budget
BudgetPerCall ==
    /\ pc = "laguerre_loop" /\ lag'.root # lag.root =>
          lag.i < lag.max_iterations /\ lag'.i = lag.i + 1
    /\ pc = "newt" /\ newt'.x # newt.x =>
          /\ newt.i < max_iterations
          /\ newt'.i = newt.i + 1 \/ (newt'.i = newt.i /\ pc' = "newt_returned")
    /\ pc = "laguerre" /\ pc' = "laguerre_loop" => lag'.i = 0
    /\ pc = "laguerre_returned" /\ pc' = "newt" => newt'.i = 0

\* C17: every call of polysolve ends, with a root set or a failure: it runs
\* at most order - 3 rounds, each call of laguerre and each call of newt
\* updates its estimate at most max_iterations times, each with a budget of
\* its own, and no loop runs forever.
PolysolveTerminates ==
    /\ []WithinBudget
    /\ [][BudgetPerCall]_vars
    /\ [](op = "polysolve" => <>Done)

\* polysolve has failed in its second round because laguerre used up its
\* budget there, after a first round that iterated as well
BudgetSpentInSecondRound ==
    /\ op = "polysolve" /\ Done /\ result = Failure
    /\ Count("laguerre") = 2 /\ Count("deflate") = 1
    /\ ~root.has
    /\ lag.i = max_iterations

\* quadratic was called with a valid tolerance on an order-2 polynomial and
\* has returned
QuadraticEnded == op = "quadratic" /\ Done /\ ~InvalidConfiguration

\* Re(conj(b) * sqrt(D)) for the polynomial given
SignTest == CMul(CConj(poly[2]), QuadraticDiscriminant(poly[3], poly[2], poly[1])).re

\* q = -(1/2)(b + s * sqrt(D)) with the sign s that makes SignTest >= 0, the
\* + branch at 0
StableQ ==
    CScale(0 - (Scale \div 2),
           CAdd(poly[2],
                IF FGe(SignTest, 0)
                THEN QuadraticDiscriminant(poly[3], poly[2], poly[1])
                ELSE CNeg(QuadraticDiscriminant(poly[3], poly[2], poly[1]))))

KnownRoots ==
    { CZero, CReal(Scale), CReal(2 * Scale), CReal((3 * Scale) \div 2),
      Cx(0, Scale), Cx(0, 0 - Scale) }

\* the polynomial given is a (x - r1)(x - r2) with a its leading coefficient
HasRoots(r1, r2) ==
    /\ poly[2] = CNeg(CMul(poly[3], CAdd(r1, r2)))
    /\ poly[1] = CMul(poly[3], CMul(r1, r2))

\* C20: for a quadratic a (x - r1)(x - r2) with a # 0 and known roots, equal
\* roots and roots at 0 included, quadratic with complex output returns a root
\* set holding r1 and r2, never a failure or another set.
QuadraticReturnsKnownRoots ==
    QuadraticEnded /\ rt = "complex" /\ poly[3] # CZero =>
        \A r1, r2 \in KnownRoots :
            HasRoots(r1, r2) =>
                /\ result.kind = "value"
                /\ SameElements(result.val, << r1, r2 >>)

\* the results the call with frame c can return when it runs alone, for the
\* operations that neither iterate nor draw random numbers
AloneResults(c) ==
    CASE c.op = "sortRoots" ->
            { Value(s) : s \in SortRoots(c.rt, c.roots_arg, c.tolerance) }
      [] c.op = "linear" ->
            { Value(s) : s \in SortRoots(c.rt, LinearRoots(c.poly), c.tolerance) }
      [] c.op = "quadratic" ->
            IF QuadraticIllFormed(c.poly, c.tolerance) THEN { Failure }
            ELSE { Value(s) : s \in SortRoots(c.rt, QuadraticRootsOf(c.poly, QuadraticQ(c.poly)),
                                              c.tolerance) }

\* the frame c is of a call that has ended with a result it can return alone
EndedAsAlone(c) ==
    c.pc = "done" /\ c.op \in { "sortRoots", "linear", "quadratic" } =>
        c.result \in AloneResults(c)

ConjugatePair ==
    /\ Order(poly) = 2
    /\ \A k \in 1..3 : poly[k].im = 0
    /\ FSub(FMul(poly[2].re, poly[2].re), FMul(Lit(4), FMul(poly[3].re, poly[1].re))) < 0

\* the two roots of the pair as the quadratic formula computes them
PairRoots == QuadraticRootsOf(poly, StableQ)

\* quadratic or polysolve was called with valid arguments on a conjugate
\* pair and has ended
PairEnded ==
    /\ op \in { "quadratic", "polysolve" } /\ Done /\ ~InvalidConfiguration
    /\ ConjugatePair

\* the root set of the pair in the order negative imaginary part first
NegativeFirst ==
    IF PairRoots[1].im < 0 THEN PairRoots ELSE << PairRoots[2], PairRoots[1] >>

LinearEnded == op = "linear" /\ Done

\* C22: linear fails exactly when the tolerance is not positive or the order is not 1; on an order-1 polynomial c1 * x + c0 with a positive tolerance it returns a value, and with complex output that value is the one-element root set { -c0 / c1 }.
LinearReturnsTheRoot ==
    LinearEnded =>
        /\ result.kind # "value" <=> (tolerance <= 0 \/ Order(poly) # 1)
        /\ result.kind # "value" => result = Thrown
        /\ result.kind = "value" /\ rt = "complex" =>
               result.val = << CDiv(CNeg(poly[1]), poly[2]) >>

LinearRootReturned ==
    /\ LinearEnded /\ rt = "complex"
    /\ poly = RealPoly(<< 0 - 1, 3 >>)
    /\ result.kind = "value" /\ Len(result.val) = 1


\* a call of diff, or of one of the convenience functions, has returned
DiffEnded == op \in { "diff", "central", "forward", "backward" } /\ Done

\* the algorithm the call is instantiated with
AlgoCalled ==
    CASE op = "central" -> "Order1CentralRichardson"
      [] op = "forward" -> "Order1ForwardRichardson"
      [] op = "backward" -> "Order1BackwardRichardson"
      [] OTHER -> ALGO

\* the number the algorithm computes for the arguments of the call
Computed == Derivative(AlgoCalled, function, val, EffectiveStep(val, stepsize))

\* C23: diff, central, forward and backward never raise; the result holds a value exactly when the number computed by the algorithm is finite, and then that number, and holds an error exactly when the number is NaN or infinite.
DiffValueIffFinite ==
    DiffEnded =>
        /\ result.kind \in { "value", "error" }
        /\ result.kind = "value" <=> IsFinite(Computed)
        /\ result.kind = "error" <=> IsNaN(Computed) \/ IsInf(Computed)
        /\ result.kind = "value" => result.val = Computed /\ IsFinite(result.val)

CentralOfSqrtAtZeroFails ==
    /\ DiffEnded /\ op = "central" /\ function = "sqrt" /\ val = 0 /\ stepsize = 10
    /\ IsNaN(Computed) /\ result = Failure


\* the step the algorithm of the call is run with
StepUsed == EffectiveStep(val, stepsize)

\* a call with a positive step has returned
PositiveStepEnded == DiffEnded /\ stepsize > 0

\* what C24 says of the sample points and of the step
SamplesOnTheSide ==
    /\ FGt(StepUsed, 0)
    /\ AlgoCalled \in ForwardAlgos => \A p \in evaluated : FGe(p, val)
    /\ AlgoCalled \in BackwardAlgos => \A p \in evaluated : FLe(p, val)
    /\ AlgoCalled \in CentralAlgos \cup BackwardAlgos =>
           /\ Behind(val, 1, StepUsed) \in evaluated
           /\ FLt(Behind(val, 1, StepUsed), val)

\* sqrt, defined on [0, +inf) only, differentiated at a point of its domain
\* by a forward algorithm
ForwardOnSqrt == AlgoCalled \in ForwardAlgos /\ function = "sqrt" /\ val >= 0

\* C24 as stated: for every point and positive step, forward algorithms sample only at points >= x, backward ones only at points <= x, the step used is positive, central and backward ones sample below x, and a function defined only on [x, +inf) gets a value from the forward algorithms.
ForwardAlwaysGetsValue ==
    PositiveStepEnded =>
        /\ SamplesOnTheSide
        /\ ForwardOnSqrt => result.kind = "value"

\* C24: for every point and positive step, forward algorithms sample only at points >= x, backward ones only at points <= x, the step used, max(h, h * x), is positive, central and backward ones sample below x; a function defined only on [x, +inf) is evaluated by the forward algorithms only inside its domain and gets a value exactly when the number computed from those samples is finite.
ForwardStaysInDomain ==
    PositiveStepEnded =>
        /\ SamplesOnTheSide
        /\ ForwardOnSqrt =>
               /\ \A p \in evaluated : ~IsNaN(Call(function, p))
               /\ result.kind = "value" <=> IsFinite(Computed)

ForwardOfSqrtAtZero ==
    /\ PositiveStepEnded /\ op = "forward" /\ function = "sqrt" /\ val = 0
    /\ stepsize = 10 /\ result.kind = "value"
    /\ evaluated = { 10, 20, 30, 40 }


\* a call of laguerre that passed the checks of its arguments has returned
LaguerreEnded == op = "laguerre" /\ Done /\ ~InvalidConfiguration

\* the estimate held at the return meets the first convergence test
EstimateConverged == FLt(CAbs(PolyEval(lag.poly, lag.root)), lag.tolerance)

\* C25 as stated: laguerre ends with a root that met a convergence test, or with the non-convergence failure, and with the failure only when no estimate met a test, the one produced by the max_iterations-th update included; the counter never exceeds max_iterations.
FailureOnlyWhenNoEstimateConverged ==
    LaguerreEnded =>
        /\ result.kind \in { "value", "error" }
        /\ result.kind = "value" =>
               \/ FLt(CAbs(PolyEval(lag.poly, result.val[1])), lag.tolerance)
               \/ FLt(CAbs(lag.step), lag.tolerance)
        /\ result.kind = "error" => ~EstimateConverged
        /\ lag.i <= lag.max_iterations


\* the step laguerre computes at its current estimate, the fallback included
ComputedStep ==
    StepOrFallback(
        LaguerreStepOf(
            LaguerreG(PolyEval(DerivativeOf(lag.poly), lag.root),
                      PolyEval(lag.poly, lag.root)),
            LaguerreTemp(
                LaguerreG(PolyEval(DerivativeOf(lag.poly), lag.root),
                          PolyEval(lag.poly, lag.root)),
                LaguerreH(PolyEval(DerivativeOf(DerivativeOf(lag.poly)), lag.root),
                          PolyEval(lag.poly, lag.root),
                          LaguerreG(PolyEval(DerivativeOf(lag.poly), lag.root),
                                    PolyEval(lag.poly, lag.root))))))

\* laguerre updates its estimate
LaguerreUpdates == pc = "laguerre_loop" /\ pc' = "laguerre_loop" /\ lag'.i = lag.i + 1

\* C26 as stated: when the counter is a multiple of 10 the step applied to the root is the computed Laguerre step multiplied by a scalar drawn from [0.9, 1.1], and on every other iteration it is the computed step unchanged.
PerturbationScalesTheStep ==
    [][LaguerreUpdates =>
          /\ lag'.root = CSub(lag.root, lag'.step)
          /\ IF lag.i % 10 = 0
             THEN \E r \in Dist : lag'.step = CScale(r, ComputedStep)
             ELSE lag'.step = ComputedStep]_vars


\* laguerre is about to compute a step: it has neither run out of iterations
\* nor met the first convergence test
LaguerreComputesStep ==
    /\ pc = "laguerre_loop" /\ lag.i < lag.max_iterations
    /\ ~FLt(CAbs(PolyEval(lag.poly, lag.root)), lag.tolerance)

\* G and sqrt(2(3H - G^2)) at the current estimate
GNow ==
    LaguerreG(PolyEval(DerivativeOf(lag.poly), lag.root), PolyEval(lag.poly, lag.root))
TempNow ==
    LaguerreTemp(GNow,
                 LaguerreH(PolyEval(DerivativeOf(DerivativeOf(lag.poly)), lag.root),
                           PolyEval(lag.poly, lag.root), GNow))

\* the candidate of larger magnitude
SelectedDenominator ==
    IF FGt(CAbs(CAdd(GNow, TempNow)), CAbs(CSub(GNow, TempNow)))
    THEN CAdd(GNow, TempNow) ELSE CSub(GNow, TempNow)

\* C27 as stated: the step is 3 divided by the candidate of larger magnitude, and the fallback 0.1 replaces it exactly when that candidate is near zero or the quotient is not finite.
FallbackOnlyForSelected ==
    LaguerreComputesStep =>
        ComputedStep =
            IF \/ FLt(CAbs(SelectedDenominator), EPS)
               \/ ~IsFinite(CAbs(CDiv(CReal(Lit(3)), SelectedDenominator)))
            THEN CReal(Scale \div 10)
            ELSE CDiv(CReal(Lit(3)), SelectedDenominator)


\* the derivative of the polished polynomial at the current estimate is near
\* zero
SlopeNearZero == FLt(CAbs(PolyEval(DerivativeOf(newt.f), newt.x)), EPS)

\* f at the estimate x and the step dx pass the test of the polish
AllBelowTolerance(x, dx) ==
    /\ FLt(FAbs(PolyEval(newt.f, x).re), tolerance)
    /\ FLt(FAbs(PolyEval(newt.f, x).im), tolerance)
    /\ FLt(FAbs(dx.re), tolerance)
    /\ FLt(FAbs(dx.im), tolerance)

\* newt returns
NewtReturns == pc = "newt" /\ pc' = "newt_returned"

\* newt goes round its loop once more
NewtRepeats == pc = "newt" /\ pc' = "newt"

\* C28: the Newton polish returns a root only from an update x - f(x) / f'(x) after which the real and imaginary parts of f at the new x and of the step are all below the tolerance; it returns failure exactly when the derivative at the current estimate is near zero or max_iterations updates were made without meeting the test (the counter counts exactly those updates); so a start estimate is accepted only after an update, and rejected where the derivative is near zero.
NewtAcceptsOnlyConverged ==
    [][/\ NewtReturns /\ polished_root'.has =>
              /\ ~SlopeNearZero /\ newt.i < max_iterations
              /\ newt'.dx = CDiv(PolyEval(newt.f, newt.x),
                                 PolyEval(DerivativeOf(newt.f), newt.x))
              /\ newt'.x = CSub(newt.x, newt'.dx)
              /\ polished_root'.val = newt'.x
              /\ AllBelowTolerance(newt'.x, newt'.dx)
       /\ NewtReturns /\ ~polished_root'.has =>
              /\ SlopeNearZero \/ newt.i >= max_iterations
              /\ newt' = newt
       /\ NewtReturns /\ (SlopeNearZero \/ newt.i >= max_iterations) =>
              ~polished_root'.has
       /\ NewtRepeats =>
              /\ newt'.i = newt.i + 1
              /\ newt'.x = CSub(newt.x, newt'.dx)
              /\ ~AllBelowTolerance(newt'.x, newt'.dx)]_vars

\* an estimate that is an exact root of the original has been accepted after
\* one update
ExactRootAcceptedAfterUpdate ==
    /\ pc = "newt_returned" /\ polished_root.has
    /\ newt.i = 0
    /\ PolyEval(newt.f, root.val) = CZero
    /\ newt.x = CSub(root.val, newt.dx)


\* polysolve has ended on a quadratic, its arguments being valid
PolysolveQuadraticEnded ==
    op = "polysolve" /\ Done /\ ~InvalidConfiguration /\ Order(poly) = 2

\* C29 as stated: within a polysolve call made with tolerance t every tolerance-controlled decision uses t; for the quadratic it dispatches to, the call fails as ill formed exactly when |q| < t or |a| < t.
DispatchUsesCallersTolerance ==
    PolysolveQuadraticEnded =>
        (result = Failure
            <=> FLt(CAbs(StableQ), tolerance) \/ FLt(CAbs(poly[3]), tolerance))


\* the two calls are laguerre with the same arguments
TwinLaguerre ==
    /\ op = "laguerre" /\ waiting.op = "laguerre"
    /\ waiting.poly = poly /\ waiting.guess = guess
    /\ waiting.tolerance = tolerance /\ waiting.max_iterations = max_iterations

\* C30 as stated: two runs of laguerre with the same polynomial, guess, tolerance and max_iterations take the same estimates and end with the same outcome.
SameInputsSameOutcome ==
    TwinLaguerre /\ Done /\ waiting.pc = "done" => result = waiting.result

\* the step laguerre applies when its generator draws r
AppliedStep(r) == IF lag.i % 10 = 0 THEN CReal(r) ELSE ComputedStep

\* what laguerre returns to its caller with the step from the loop
LaguerreLeaves(res) ==
    /\ op = "laguerre" => Done' /\ result' = (IF res.has THEN Value(<< res.val >>) ELSE Failure)
    /\ op = "polysolve" => pc' = "laguerre_returned" /\ root' = res

\* C30: laguerre is deterministic in its inputs and the values its generator draws: each pass of its loop is determined by the current estimate and counter, except that on a pass whose counter is a multiple of 10 the step applied is the value r drawn from [0.9, 1.1]; two runs with the same arguments and the same draws take the same estimates and end with the same outcome.
DeterministicGivenTheDraws ==
    [][pc = "laguerre_loop" /\ waiting' = waiting =>
          IF lag.i >= lag.max_iterations
          THEN LaguerreLeaves(None) /\ lag' = lag
          ELSE IF EstimateConverged
          THEN LaguerreLeaves(Some(lag.root)) /\ lag' = lag
          ELSE IF FLt(CAbs(ComputedStep), lag.tolerance)
          THEN LaguerreLeaves(Some(lag.root)) /\ lag' = [lag EXCEPT !.step = ComputedStep]
          ELSE /\ pc' = "laguerre_loop"
               /\ \E r \in Dist :
                     lag' = [lag EXCEPT !.step = AppliedStep(r),
                                        !.root = CSub(lag.root, AppliedStep(r)),
                                        !.i = lag.i + 1]]_vars

\* two runs with the same arguments have ended, each after its first update:
\* one drew 1.0 and returned the root -1, the other drew another value and
\* ran out of iterations
TwinsEndedApart ==
    /\ TwinLaguerre /\ Done /\ waiting.pc = "done"
    /\ lag.i = 1 /\ lag.step = CReal(Scale) /\ result = Value(<< CReal(0 - Scale) >>)
    /\ waiting.lag.i = 2 /\ waiting.result = Failure

=============================================================================
